---- MODULE Spec2Model ----
(***************************************************************************)
(* Demand-response payout computation of homework.py: the 10-of-10         *)
(* baseline, the performance against a baseline, the hourly payouts and    *)
(* their totals.                                                           *)
(*                                                                         *)
(* Numbers.  Readings, baselines, performances and money are exact         *)
(* rationals [n, d] in lowest terms; the record with d = 0 is pandas' NaN. *)
(* The rounding of binary floating point is modelled separately, for the   *)
(* two share lines of calculate_payouts, in the last part of the module.   *)
(*                                                                         *)
(* Time.  A timestamp is a number of minutes since 2022-05-23 00:00, a     *)
(* Monday, so that 2022-06-14 is day 22.                                   *)
(*                                                                         *)
(* Three specifications.  Spec runs the functions on one site with their   *)
(* parameters (data, event window, rates, share) drawn from bounded sets;  *)
(* MainSpec is main() as written, the loop over the five sites with the    *)
(* event and rates the script fixes; ShareSpec applies the two share       *)
(* lines to one Revenue cell in floating point.                            *)
(***************************************************************************)
EXTENDS Integers, FiniteSets, Sequences, TLC

VARIABLES
    data,         \* site_data["kWh"]: timestamp -> reading
    event_start,  \* the event window handed to the functions
    event_end,
    fsl,          \* the scalar (FSL) baseline
    share,        \* customer_profit_share, in percent
    rates,        \* hourly_payout_rates: timestamp -> price
    pc,           \* position in the pipeline
    baseline10,   \* result of get_10of10_baselines
    perf_fsl,     \* customer_performance_from_baseline(slice, fsl)
    perf_10,      \* customer_performance_from_baseline(slice, baseline10)
    payouts,      \* the frame calculate_payouts returns: hour -> row
    totals,       \* payouts.sum()
    site,         \* main: position in the list of sites
    df,           \* main: the result table, site -> row
    frevenue,     \* one Revenue cell, as a binary float
    fshare,       \* customer_profit_share, as a binary float
    fcustomer,    \* the cell's Customer Share, as a binary float
    fvoltus       \* the cell's Voltus Share, as a binary float

floatVars == <<frevenue, fshare, fcustomer, fvoltus>>

vars == <<data, event_start, event_end, fsl, share, rates, pc, baseline10,
          perf_fsl, perf_10, payouts, totals, site, df, floatVars>>

(***************************************************************************)
(* Rational arithmetic with NaN                                            *)
(***************************************************************************)
Abs(i) == IF i < 0 THEN -i ELSE i

RECURSIVE Gcd(_, _)
Gcd(a, b) == IF b = 0 THEN a ELSE Gcd(b, a % b)

NaN == [n |-> 0, d |-> 0]

IsNaN(x) == x.d = 0

\* num / den in lowest terms, den # 0
Rat(num, den) ==
    LET s == IF den < 0 THEN -1 ELSE 1
        g == Gcd(Abs(num), Abs(den))
    IN [n |-> (s * num) \div g, d |-> (s * den) \div g]

R(i) == [n |-> i, d |-> 1]

Zero == R(0)

FAdd(a, b) ==
    IF IsNaN(a) \/ IsNaN(b) THEN NaN
    ELSE LET g == Gcd(a.d, b.d)
         IN Rat(a.n * (b.d \div g) + b.n * (a.d \div g), (a.d \div g) * b.d)

FNeg(a) == IF IsNaN(a) THEN NaN ELSE [n |-> -a.n, d |-> a.d]

FSub(a, b) == FAdd(a, FNeg(b))

FMul(a, b) ==
    IF IsNaN(a) \/ IsNaN(b) THEN NaN
    ELSE LET g1 == Gcd(Abs(a.n), b.d)
             g2 == Gcd(Abs(b.n), a.d)
             h1 == IF g1 = 0 THEN 1 ELSE g1
             h2 == IF g2 = 0 THEN 1 ELSE g2
         IN Rat((a.n \div h1) * (b.n \div h2), (a.d \div h2) * (b.d \div h1))

\* division by a non-zero integer
FDivInt(a, k) == FMul(a, Rat(1, k))

\* a > b as Python compares floats: every comparison with NaN is false
FGt(a, b) == ~IsNaN(a) /\ ~IsNaN(b) /\ a.n * b.d > b.n * a.d

\* Python's max(x, y): y replaces x only when y > x
PyMax(x, y) == IF FGt(y, x) THEN y ELSE x

(***************************************************************************)
(* Timestamps                                                              *)
(***************************************************************************)
Ts(day, h, m) == (day * 24 + h) * 60 + m

floor_h(t) == t - (t % 60)

hour(t) == (t \div 60) % 24

dayofweek(t) == (t \div 1440) % 7

DayOf(t) == t \div 1440

\* pd.offsets.BusinessDay._adjust_ndays, for an offset of n business days
adjust_ndays(n0, wday, weeks) ==
    LET n1 == IF n0 <= 0 /\ wday > 4 THEN n0 + 1 ELSE n0
        n == n1 - 5 * weeks
    IN IF n = 0 /\ wday > 4 THEN 4 - wday
       ELSE IF wday > 4 THEN (7 - wday) + (n - 1)
       ELSE IF wday + n <= 4 THEN n
       ELSE n + 2

\* t - pd.offsets.BusinessDay(k): the time of day is kept
MinusBusinessDay(t, k) ==
    LET n == -k
        weeks == n \div 5
        days == adjust_ndays(n, dayofweek(t), weeks)
    IN t + (7 * weeks + days) * 1440

\* pd.date_range(a, b, freq="h"): both ends included
date_range(a, b) ==
    IF b < a THEN {} ELSE {a + 60 * i : i \in 0..((b - a) \div 60)}

(***************************************************************************)
(* pandas Series: a function from its index to values                      *)
(***************************************************************************)
EmptySeries == [k \in {} |-> NaN]

Restrict(s, keys) == [k \in (DOMAIN s) \cap keys |-> s[k]]

\* s.loc[lo : hi]: label slicing includes both ends
Loc(s, lo, hi) == Restrict(s, {t \in DOMAIN s : lo <= t /\ t <= hi})

RECURSIVE SumInts(_, _)
SumInts(s, keys) ==
    IF keys = {} THEN 0
    ELSE LET k == CHOOSE x \in keys : TRUE
         IN s[k] + SumInts(s, keys \ {k})

RECURSIVE SumRats(_, _)
SumRats(s, keys) ==
    IF keys = {} THEN Zero
    ELSE LET k == CHOOSE x \in keys : TRUE
         IN FAdd(s[k], SumRats(s, keys \ {k}))

Valid(s) == {k \in DOMAIN s : ~IsNaN(s[k])}

\* Series.sum(): NaN is skipped, the empty sum is 0
SeriesSum(s) == SumRats(s, Valid(s))

\* Series.mean(): NaN is skipped, the mean of nothing is NaN
SeriesMean(s) ==
    IF Valid(s) = {} THEN NaN
    ELSE FDivInt(SumRats(s, Valid(s)), Cardinality(Valid(s)))

\* s.groupby(s.index.floor("h")).sum() of a series of readings
GroupByHourSum(s) ==
    [k \in {floor_h(t) : t \in DOMAIN s} |->
        R(SumInts(s, {t \in DOMAIN s : floor_h(t) = k}))]

\* a - b on two Series: aligned on the union of the indexes
SeriesSub(a, b) ==
    [k \in (DOMAIN a) \cup (DOMAIN b) |->
        IF k \in DOMAIN a /\ k \in DOMAIN b THEN FSub(a[k], b[k]) ELSE NaN]

\* c - b for a scalar c
ScalarSub(c, b) == [k \in DOMAIN b |-> FSub(c, b[k])]

(***************************************************************************)
(* get_10of10_baselines                                                    *)
(***************************************************************************)
\* faulty variant: Saturday passes the weekend filter
IsBusinessDaySatKept(t) == dayofweek(t) < 6

IsBusinessDay(t) == dayofweek(t) < 5

LookbackStart(es) == MinusBusinessDay(es, 10)

LookbackEnd(ee) == MinusBusinessDay(ee, 1)

\* the hourly totals of the lookback window, weekends removed
LookbackHourly(d, es, ee) ==
    LET window == Loc(d, LookbackStart(es), LookbackEnd(ee))
        weekdays == Restrict(window, {t \in DOMAIN window : IsBusinessDay(t)})
    IN GroupByHourSum(weekdays)

BaselineKeys(es, ee) == date_range(es, ee)

\* faulty variant: the sum of the hour's totals divided by a fixed 10
HourMeanOfTen(hourly, i) ==
    LET sel == Restrict(hourly, {k \in DOMAIN hourly : hour(k) = hour(i)})
    IN IF Valid(sel) = {} THEN NaN ELSE FDivInt(SeriesSum(sel), 10)

HourMean(hourly, i) ==
    SeriesMean(Restrict(hourly, {k \in DOMAIN hourly : hour(k) = hour(i)}))

get_10of10_baselines(d, es, ee) ==
    LET hourly == LookbackHourly(d, es, ee)
    IN [i \in BaselineKeys(es, ee) |-> HourMean(hourly, i)]

(***************************************************************************)
(* customer_performance_from_baseline                                     *)
(***************************************************************************)
ScalarBaseline(v) == [scalar |-> TRUE, v |-> v, s |-> EmptySeries]

SeriesBaseline(s) == [scalar |-> FALSE, v |-> NaN, s |-> s]

\* baseline - hourly, for a float or a Series baseline
BaselineMinus(baseline, hourly) ==
    IF baseline.scalar THEN ScalarSub(baseline.v, hourly)
    ELSE SeriesSub(baseline.s, hourly)

customer_performance_from_baseline(customer_series, baseline) ==
    SeriesMean(BaselineMinus(baseline, GroupByHourSum(customer_series)))

(***************************************************************************)
(* calculate_payouts                                                       *)
(***************************************************************************)
hourly_rates ==
    (Ts(22, 14, 0) :> 1500) @@ (Ts(22, 15, 0) :> 1800) @@
    (Ts(22, 16, 0) :> 3000) @@ (Ts(22, 17, 0) :> 780)

\* Performance * pd.Series(hourly_payout_rates) / 1000, on the union index
PricedPerformance(perf, hprates) ==
    [k \in (DOMAIN perf) \cup (DOMAIN hprates) |->
        IF k \in DOMAIN perf /\ k \in DOMAIN hprates
        THEN FDivInt(FMul(perf[k], R(hprates[k])), 1000)
        ELSE NaN]

\* faulty variant: the revenue is not clamped
ClampOff(x) == x

\* lambda x: max(x, 0)
Clamp(x) == PyMax(x, Zero)

CustomerShare(revenue, r) == FMul(revenue, r)

VoltusShare(revenue, customer) == FSub(revenue, customer)

calculate_payouts(customer_series, baseline, r, hprates) ==
    LET perf == SeriesSub(baseline, GroupByHourSum(customer_series))
        priced == PricedPerformance(perf, hprates)
        \* a column assignment keeps the frame's own index
        revenue == [k \in DOMAIN perf |-> Clamp(priced[k])]
    IN [k \in DOMAIN perf |->
           [Performance |-> perf[k],
            Revenue |-> revenue[k],
            CustomerShare |-> CustomerShare(revenue[k], r),
            VoltusShare |->
                VoltusShare(revenue[k], CustomerShare(revenue[k], r))]]

Column(frame, c) == [k \in DOMAIN frame |-> frame[k][c]]

\* DataFrame.sum(): every column summed, NaN skipped
FrameSum(frame) ==
    [Performance |-> SeriesSum(Column(frame, "Performance")),
     Revenue |-> SeriesSum(Column(frame, "Revenue")),
     CustomerShare |-> SeriesSum(Column(frame, "CustomerShare")),
     VoltusShare |-> SeriesSum(Column(frame, "VoltusShare"))]

NoTotals ==
    [Performance |-> NaN, Revenue |-> NaN, CustomerShare |-> NaN,
     VoltusShare |-> NaN]

\* the slice of the site's data main hands to the functions
EventSlice(d, es, ee) == Loc(d, es, ee)

(***************************************************************************)
(* Binary floating point: a float is m * 2^e with an odd m of at most      *)
(* Precision bits (53 for the float64 columns of the frame), or NaN.       *)
(* Every operation rounds its exact result to the nearest float, ties to   *)
(* the even mantissa.                                                      *)
(***************************************************************************)
Precision == 4

RECURSIVE Pow2(_)
Pow2(k) == IF k <= 0 THEN 1 ELSE 2 * Pow2(k - 1)

RECURSIVE BitLength(_)
BitLength(a) == IF a = 0 THEN 0 ELSE 1 + BitLength(a \div 2)

FlNaN == [nan |-> TRUE, m |-> 0, e |-> 0]

RECURSIVE Canon(_, _)
Canon(m, e) ==
    IF m = 0 THEN [nan |-> FALSE, m |-> 0, e |-> 0]
    ELSE IF m % 2 = 0 THEN Canon(m \div 2, e + 1)
    ELSE [nan |-> FALSE, m |-> m, e |-> e]

\* the float nearest to m * 2^e
Round(m, e) ==
    LET a == Abs(m)
        k == BitLength(a) - Precision
    IN IF k <= 0 THEN Canon(m, e)
       ELSE LET q == a \div Pow2(k)
                r == a % Pow2(k)
                half == Pow2(k - 1)
                up == r > half \/ (r = half /\ q % 2 = 1)
                q1 == IF up THEN q + 1 ELSE q
            IN Canon((IF m < 0 THEN -1 ELSE 1) * q1, e + k)

FlMul(a, b) ==
    IF a.nan \/ b.nan THEN FlNaN ELSE Round(a.m * b.m, a.e + b.e)

FlAdd(a, b) ==
    IF a.nan \/ b.nan THEN FlNaN
    ELSE LET e == IF a.e < b.e THEN a.e ELSE b.e
         IN Round(a.m * Pow2(a.e - e) + b.m * Pow2(b.e - e), e)

FlSub(a, b) ==
    IF a.nan \/ b.nan THEN FlNaN
    ELSE FlAdd(a, [nan |-> FALSE, m |-> -b.m, e |-> b.e])

\* df["Revenue"] * customer_profit_share
FlCustomerShare(revenue, r) == FlMul(revenue, r)

\* faulty variant: the operands of the subtraction are exchanged
FlVoltusShareSwapped(revenue, customer) == FlSub(customer, revenue)

\* df["Revenue"] - df["Customer Share"]
FlVoltusShare(revenue, customer) == FlSub(revenue, customer)

(***************************************************************************)
(* Inputs: interval data on a grid of days and hours around the event      *)
(***************************************************************************)
IntervalsPerHour == 2

PadHours == 1

GridDays == 5..26

BandHours == (14 - PadHours)..(17 + PadHours)

GridMinutes == {i * (60 \div IntervalsPerHour) : i \in 0..(IntervalsPerHour - 1)}

Grid == {Ts(d, h, m) : d \in GridDays, h \in BandHours, m \in GridMinutes}

\* a steady site: 500 per interval, 400 on the event day, 1100 at a spike
Build(index, spikes, evDay) ==
    [t \in index |->
        IF t \in spikes THEN 1100
        ELSE IF DayOf(t) = evDay THEN 400 ELSE 500]

\* a site file: one outlier; one missing interval; an hour-of-day missing on
\* every day but the event day; an hour missing on the event day; or a history
\* that starts on day f, with an outlier on the last business day at start + 1h
DataChoices(es) ==
    LET evDay == DayOf(es)
        recent == MinusBusinessDay(es, 1) + 60
    IN  {Build(Grid, {p}, evDay) : p \in Grid}
        \cup {Build(Grid \ {g}, {}, evDay) : g \in Grid}
        \cup {Build({t \in Grid : ~(hour(t) = h /\ DayOf(t) # evDay)}, {}, evDay) :
                h \in BandHours}
        \cup {Build({t \in Grid : ~(hour(t) = h /\ DayOf(t) = evDay)}, {}, evDay) :
                h \in BandHours}
        \cup {Build({t \in Grid : DayOf(t) >= f}, {recent}, evDay) : f \in GridDays}

\* the data the payout inputs are varied over
FewDataChoices(es) ==
    LET evDay == DayOf(es)
    IN  {Build(Grid, {}, evDay),
         Build(Grid, {es + 60}, evDay),
         Build(Grid, {MinusBusinessDay(es, 1)}, evDay)}

\* events on Monday 2022-06-13, Tuesday 2022-06-14 and Saturday 2022-06-18
EventDays == {21, 22, 26}

RateChoices ==
    {hourly_rates} \cup
    {Restrict(hourly_rates, (DOMAIN hourly_rates) \ {k}) : k \in DOMAIN hourly_rates}

ShareChoices == {Rat(0, 100), Rat(51, 100), Rat(64, 100), Rat(100, 100)}

\* either the default window and payout parameters on any data, or any
\* window, rates and share on a few data
Init ==
    /\ \E day \in EventDays :
         \/ /\ event_start = Ts(day, 14, 0)
            /\ event_end = Ts(day, 17, 0)
            /\ data \in DataChoices(event_start)
            /\ share = Rat(64, 100)
            /\ rates = hourly_rates
         \/ /\ event_start \in {Ts(day, 14, 0), Ts(day, 15, 0)}
            /\ event_end \in {Ts(day, 16, 0), Ts(day, 17, 0)}
            /\ data \in FewDataChoices(event_start)
            /\ share \in ShareChoices
            /\ rates \in RateChoices
    /\ fsl = R(1000)
    /\ pc = "baseline"
    /\ baseline10 = EmptySeries
    /\ perf_fsl = NaN
    /\ perf_10 = NaN
    /\ payouts = EmptySeries
    /\ totals = NoTotals
    /\ site = 0
    /\ df = EmptySeries
    /\ frevenue = FlNaN
    /\ fshare = FlNaN
    /\ fcustomer = FlNaN
    /\ fvoltus = FlNaN

CallBaseline ==
    /\ pc = "baseline"
    /\ baseline10' = get_10of10_baselines(data, event_start, event_end)
    /\ pc' = "perf_fsl"
    /\ UNCHANGED <<floatVars, data, event_start, event_end, fsl, share, rates, perf_fsl,
                   perf_10, payouts, totals, site, df>>

CallPerformanceFSL ==
    /\ pc = "perf_fsl"
    /\ perf_fsl' = customer_performance_from_baseline(
                       EventSlice(data, event_start, event_end), ScalarBaseline(fsl))
    /\ pc' = "perf_10"
    /\ UNCHANGED <<floatVars, data, event_start, event_end, fsl, share, rates, baseline10,
                   perf_10, payouts, totals, site, df>>

CallPerformance10 ==
    /\ pc = "perf_10"
    /\ perf_10' = customer_performance_from_baseline(
                      EventSlice(data, event_start, event_end),
                      SeriesBaseline(baseline10))
    /\ pc' = "payouts"
    /\ UNCHANGED <<floatVars, data, event_start, event_end, fsl, share, rates, baseline10,
                   perf_fsl, payouts, totals, site, df>>

CallPayouts ==
    /\ pc = "payouts"
    /\ payouts' = calculate_payouts(EventSlice(data, event_start, event_end),
                                    baseline10, share, rates)
    /\ pc' = "sum"
    /\ UNCHANGED <<floatVars, data, event_start, event_end, fsl, share, rates, baseline10,
                   perf_fsl, perf_10, totals, site, df>>

SumPayouts ==
    /\ pc = "sum"
    /\ totals' = FrameSum(payouts)
    /\ pc' = "done"
    /\ UNCHANGED <<floatVars, data, event_start, event_end, fsl, share, rates, baseline10,
                   perf_fsl, perf_10, payouts, site, df>>

Next ==
    \/ CallBaseline
    \/ CallPerformanceFSL
    \/ CallPerformance10
    \/ CallPayouts
    \/ SumPayouts

Spec == Init /\ [][Next]_vars

(***************************************************************************)
(* main: the loop over the sites, with the event, the rates and the site   *)
(* metadata the script fixes                                               *)
(***************************************************************************)
Sites == <<1, 2, 3, 5, 6>>

miso_baselines ==
    (1 :> 10700) @@ (2 :> 5400) @@ (3 :> 850) @@ (5 :> 9000) @@ (6 :> 350)

customer_profit_share ==
    (1 :> Rat(64, 100)) @@ (2 :> Rat(62, 100)) @@ (3 :> Rat(56, 100)) @@
    (5 :> Rat(65, 100)) @@ (6 :> Rat(51, 100))

\* a cell construct_df leaves as the empty string
Blank == [n |-> 0, d |-> -1]

construct_df ==
    [i \in DOMAIN miso_baselines |->
        [MisoFSLBaseline |-> R(miso_baselines[i]),
         ProfitShare |-> customer_profit_share[i],
         Baseline10of10 |-> Blank,
         AvgPerformance10of10 |-> Blank,
         AvgPerformanceFSL |-> Blank,
         Revenue |-> Blank,
         CustomerShare |-> Blank,
         VoltusShare |-> Blank]]

\* 2022-06-14 14:00 and 17:00
DefaultEventStart == Ts(22, 14, 0)

DefaultEventEnd == Ts(22, 17, 0)

\* the contents of a site's file
MainDataChoices ==
    FewDataChoices(DefaultEventStart)
    \cup {Build(Grid, {DefaultEventEnd}, 22), Build(Grid \ {DefaultEventEnd}, {}, 22)}

MainInit ==
    /\ data = EmptySeries
    /\ event_start = DefaultEventStart
    /\ event_end = DefaultEventEnd
    /\ fsl = NaN
    /\ share = NaN
    /\ rates = hourly_rates
    /\ pc = "load"
    /\ baseline10 = EmptySeries
    /\ perf_fsl = NaN
    /\ perf_10 = NaN
    /\ payouts = EmptySeries
    /\ totals = NoTotals
    /\ site = 1
    /\ df = construct_df
    /\ frevenue = FlNaN
    /\ fshare = FlNaN
    /\ fcustomer = FlNaN
    /\ fvoltus = FlNaN

\* site_data = get_site_data(...)
MainLoad ==
    /\ pc = "load"
    /\ data' \in MainDataChoices
    /\ fsl' = df[Sites[site]].MisoFSLBaseline
    /\ share' = df[Sites[site]].ProfitShare
    /\ pc' = "perf_fsl"
    /\ UNCHANGED <<floatVars, event_start, event_end, rates, baseline10, perf_fsl, perf_10,
                   payouts, totals, site, df>>

MainPerformanceFSL ==
    /\ pc = "perf_fsl"
    /\ perf_fsl' = customer_performance_from_baseline(
                       EventSlice(data, DefaultEventStart, DefaultEventEnd),
                       ScalarBaseline(df[Sites[site]].MisoFSLBaseline))
    /\ df' = [df EXCEPT ![Sites[site]].AvgPerformanceFSL = perf_fsl']
    /\ pc' = "perf_10"
    /\ UNCHANGED <<floatVars, data, event_start, event_end, fsl, share, rates, baseline10,
                   perf_10, payouts, totals, site>>

MainPerformance10 ==
    /\ pc = "perf_10"
    /\ baseline10' = get_10of10_baselines(data, DefaultEventStart, DefaultEventEnd)
    /\ perf_10' = customer_performance_from_baseline(
                      EventSlice(data, DefaultEventStart, DefaultEventEnd),
                      SeriesBaseline(baseline10'))
    /\ df' = [df EXCEPT ![Sites[site]].AvgPerformance10of10 = perf_10']
    /\ pc' = "payouts"
    /\ UNCHANGED <<floatVars, data, event_start, event_end, fsl, share, rates, perf_fsl,
                   payouts, totals, site>>

\* payouts = calculate_payouts(...).sum() and the three cells it fills
MainPayouts ==
    /\ pc = "payouts"
    /\ baseline10' = get_10of10_baselines(data, DefaultEventStart, DefaultEventEnd)
    /\ payouts' = calculate_payouts(
                      EventSlice(data, DefaultEventStart, DefaultEventEnd),
                      baseline10', df[Sites[site]].ProfitShare, hourly_rates)
    /\ totals' = FrameSum(payouts')
    /\ df' = [df EXCEPT ![Sites[site]].Revenue = totals'.Revenue,
                        ![Sites[site]].CustomerShare = totals'.CustomerShare,
                        ![Sites[site]].VoltusShare = totals'.VoltusShare]
    /\ pc' = "loop"
    /\ UNCHANGED <<floatVars, data, event_start, event_end, fsl, share, rates, perf_fsl,
                   perf_10, site>>

\* the next site of the loop, or the return of df
MainNextSite ==
    /\ pc = "loop"
    /\ IF site < Len(Sites)
       THEN site' = site + 1 /\ pc' = "load"
       ELSE site' = site /\ pc' = "return"
    /\ UNCHANGED <<floatVars, data, event_start, event_end, fsl, share, rates, baseline10,
                   perf_fsl, perf_10, payouts, totals, df>>

MainNext ==
    \/ MainLoad
    \/ MainPerformanceFSL
    \/ MainPerformance10
    \/ MainPayouts
    \/ MainNextSite

MainSpec == MainInit /\ [][MainNext]_vars

(***************************************************************************)
(* The two share lines of calculate_payouts on one Revenue cell, in        *)
(* floating point                                                          *)
(***************************************************************************)
\* the revenues: every float of one binade, 0 and NaN (a revenue is never
\* negative)
FloatRevenues ==
    {Canon(m, 0) : m \in 0..(Pow2(Precision) - 1)} \cup {FlNaN}

\* the ratios: floats of [0, 1]
FloatShares ==
    {Canon(m, -(Precision + j)) : m \in 0..(Pow2(Precision) - 1), j \in 0..2}
    \cup {Canon(1, 0)}

ShareInit ==
    /\ frevenue \in FloatRevenues
    /\ fshare \in FloatShares
    /\ fcustomer = FlNaN
    /\ fvoltus = FlNaN
    /\ pc = "shares"
    /\ data = EmptySeries
    /\ event_start = DefaultEventStart
    /\ event_end = DefaultEventEnd
    /\ fsl = NaN
    /\ share = NaN
    /\ rates = hourly_rates
    /\ baseline10 = EmptySeries
    /\ perf_fsl = NaN
    /\ perf_10 = NaN
    /\ payouts = EmptySeries
    /\ totals = NoTotals
    /\ site = 0
    /\ df = EmptySeries

ComputeShares ==
    /\ pc = "shares"
    /\ fcustomer' = FlCustomerShare(frevenue, fshare)
    /\ fvoltus' = FlVoltusShare(frevenue, fcustomer')
    /\ pc' = "shared"
    /\ UNCHANGED <<frevenue, fshare, data, event_start, event_end, fsl, share,
                   rates, baseline10, perf_fsl, perf_10, payouts, totals, site, df>>

ShareNext == ComputeShares

ShareSpec == ShareInit /\ [][ShareNext]_vars

(***************************************************************************)
(* Reference notions the claims are stated with: the event hours, the ten  *)
(* business days and the lookback, written from the calendar rather than   *)
(* from the slicing the functions do                                       *)
(***************************************************************************)
\* a >= b on numbers
FGe(a, b) == ~IsNaN(a) /\ ~IsNaN(b) /\ a.n * b.d >= b.n * a.d

ComputedBaseline == pc # "baseline"

ComputedPayouts == pc \in {"sum", "done"}

\* the hour starts t of the event, es <= t < ee
EventHours(es, ee) == {t \in es..ee : t % 60 = 0 /\ t < ee}

BusinessDaysBefore(day) == {d \in 0..(day - 1) : d % 7 < 5}

\* the 10 most recent Monday-Friday days strictly before `day`
TenDays(day) ==
    {d \in BusinessDaysBefore(day) :
        Cardinality({x \in BusinessDaysBefore(day) : x > d}) < 10}

\* every reading of the site stamped in hour h of day d
DayHourTotal(d, h) ==
    SumInts(data, {t \in DOMAIN data : DayOf(t) = d /\ hour(t) = h})

\* the totals of hour h summed over the days
TotalOverDays(days, h) == SumInts([d \in days |-> DayHourTotal(d, h)], days)

\* every interval of the event's hours on the ten days has a reading
FullyCovered ==
    \A d \in TenDays(DayOf(event_start)), k \in EventHours(event_start, event_end),
       m \in GridMinutes : Ts(d, hour(k), m) \in DOMAIN data

MinuteOfDay(t) == t % 1440

FirstOf(days) == CHOOSE d \in days : \A x \in days : d <= x

LastOf(days) == CHOOSE d \in days : \A x \in days : x <= d

\* t lies in the lookback: on one of the ten days, from the event's start time
\* on the first of them up to the event's end time on the last
InLookback(t) ==
    LET ten == TenDays(DayOf(event_start))
    IN /\ DayOf(t) \in ten
       /\ DayOf(t) = FirstOf(ten) => MinuteOfDay(t) >= MinuteOfDay(event_start)
       /\ DayOf(t) = LastOf(ten) => MinuteOfDay(t) <= MinuteOfDay(event_end)

LookbackReadings(d, h) ==
    {t \in DOMAIN data : DayOf(t) = d /\ hour(t) = h /\ InLookback(t)}

LookbackDayHourTotal(d, h) == SumInts(data, LookbackReadings(d, h))

\* the days of the lookback with a reading in hour h
DaysPresent(h) ==
    {d \in TenDays(DayOf(event_start)) : LookbackReadings(d, h) # {}}

\* the days of the lookback with any reading
DaysWithData ==
    {d \in TenDays(DayOf(event_start)) :
        \E t \in DOMAIN data : DayOf(t) = d /\ InLookback(t)}

\* the mean of hour-of-day h over the days of the lookback that have it
LookbackMean(h) ==
    LET days == DaysPresent(h)
    IN IF days = {} THEN NaN
       ELSE Rat(SumInts([d \in days |-> LookbackDayHourTotal(d, h)], days),
                Cardinality(days))

\* the readings of hour k inside the event, start <= t < end
EventReadings(k) ==
    {t \in DOMAIN data : k <= t /\ t < k + 60 /\ event_start <= t /\ t < event_end}

ActualOfHour(k) == R(SumInts(data, EventReadings(k)))

PerformanceOfHour(k) == FSub(LookbackMean(hour(k)), ActualOfHour(k))

FSLPerformanceOfHour(k) == FSub(fsl, ActualOfHour(k))

\* max(0, p / 1000 * q)
RevenueOf(p, q) ==
    LET x == FMul(FDivInt(p, 1000), R(q))
    IN IF FGe(x, Zero) THEN x ELSE Zero

RevenueOfHour(k) == RevenueOf(PerformanceOfHour(k), rates[k])

CustomerOfHour(k) == FMul(RevenueOfHour(k), share)

VoltusOfHour(k) == FSub(RevenueOfHour(k), CustomerOfHour(k))

(***************************************************************************)
(* The claims                                                              *)
(***************************************************************************)
\* C1: every hour with a performance p and a price q has revenue
\* max(0, p / 1000 * q), and no revenue is negative
C1_RevenueClamped ==
    ComputedPayouts =>
        \A k \in DOMAIN payouts :
            /\ (~IsNaN(payouts[k].Performance) /\ k \in DOMAIN rates) =>
                  payouts[k].Revenue = RevenueOf(payouts[k].Performance, rates[k])
            /\ ~IsNaN(payouts[k].Revenue) => payouts[k].Revenue.n >= 0

\* an hour with performance -500 and revenue 0 beside one with performance 200
\* and revenue 300
C1_Witness ==
    /\ ComputedPayouts
    /\ \E k \in DOMAIN payouts :
          payouts[k].Performance = R(-500) /\ payouts[k].Revenue = Zero
    /\ \E k \in DOMAIN payouts :
          payouts[k].Performance = R(200) /\ payouts[k].Revenue = R(300)

\* C2: totals are only produced when every hour with a performance value has
\* a price (a missing price fails the computation instead of being skipped)
C2_MissingPriceFails ==
    pc = "done" =>
        \A k \in DOMAIN payouts :
            ~IsNaN(payouts[k].Performance) => k \in DOMAIN rates

\* C3: the baseline series has exactly the keys t with start <= t < end, each
\* holding the mean of the historical hourly totals of its hour-of-day
C3_KeysAreEventHours ==
    ComputedBaseline =>
        /\ DOMAIN baseline10 = EventHours(event_start, event_end)
        /\ \A k \in DOMAIN baseline10 :
              DaysPresent(hour(k)) # {} => baseline10[k] = LookbackMean(hour(k))

\* the hourly totals of hour-of-day h the function averages, and their days
SampleHours(h) ==
    {x \in DOMAIN LookbackHourly(data, event_start, event_end) : hour(x) = h}

SampleDays(h) == {DayOf(x) : x \in SampleHours(h)}

\* C4: with full history, each event hour's baseline is the mean of the
\* complete totals of that hour on the ten most recent business days before
\* the event day, one per day (no weekend or event-day reading counts)
C4_TenBusinessDays ==
    (ComputedBaseline /\ FullyCovered) =>
        \A k \in EventHours(event_start, event_end) :
            /\ k \in DOMAIN baseline10
            /\ SampleDays(hour(k)) = TenDays(DayOf(event_start))
            /\ Cardinality(SampleHours(hour(k))) = 10
            /\ baseline10[k] =
                  Rat(TotalOverDays(TenDays(DayOf(event_start)), hour(k)), 10)

\* full history with an outlier on a weekend of the lookback, in the event's
\* first hour-of-day, and the baseline of that hour still 1000
C4_Witness ==
    /\ ComputedBaseline
    /\ FullyCovered
    /\ \E t \in DOMAIN data :
          /\ data[t] = 1100
          /\ dayofweek(t) >= 5
          /\ LookbackStart(event_start) < t /\ t < event_start
          /\ hour(t) = hour(event_start)
    /\ baseline10[event_start] = R(1000)

\* C5: the average performance is the mean over the event hours (start <= t <
\* end) of baseline(hour) - actual(hour), for the scalar and the series baseline
C5_MeanOverEventHours ==
    pc = "loop" =>
        /\ df[Sites[site]].AvgPerformanceFSL =
               SeriesMean([k \in EventHours(event_start, event_end) |->
                              FSLPerformanceOfHour(k)])
        /\ df[Sites[site]].AvgPerformance10of10 =
               SeriesMean([k \in EventHours(event_start, event_end) |->
                              PerformanceOfHour(k)])

\* C6: an average performance and payouts are only produced when the baseline
\* series and the actual hourly totals cover the same hours (a mismatch fails
\* the computation)
C6_MismatchFails ==
    pc \in {"payouts", "sum", "done"} =>
        DOMAIN baseline10 =
            {floor_h(t) : t \in DOMAIN EventSlice(data, event_start, event_end)}

\* C7: a baseline is only returned when every event hour-of-day has a reading
\* in the lookback, and it never holds NaN
C7_NoHistoryFails ==
    ComputedBaseline =>
        \A k \in EventHours(event_start, event_end) :
            /\ DaysPresent(hour(k)) # {}
            /\ k \in DOMAIN baseline10 => ~IsNaN(baseline10[k])

\* C8: the totals main reports are the sums over the event hours, start <= t <
\* end: no reading and no price at or after the event end contributes
C8_TotalsOverEventHours ==
    pc = "loop" =>
        /\ df[Sites[site]].Revenue =
               SeriesSum([k \in EventHours(event_start, event_end) |->
                             RevenueOfHour(k)])
        /\ df[Sites[site]].CustomerShare =
               SeriesSum([k \in EventHours(event_start, event_end) |->
                             CustomerOfHour(k)])
        /\ df[Sites[site]].VoltusShare =
               SeriesSum([k \in EventHours(event_start, event_end) |->
                             VoltusOfHour(k)])

\* a float as an integer multiple of 2^lowest
Scaled(x, lowest) == x.m * Pow2(x.e - lowest)

LowestExp == CHOOSE e \in {frevenue.e, fcustomer.e, fvoltus.e} :
                 \A x \in {frevenue.e, fcustomer.e, fvoltus.e} : e <= x

\* customer + voltus - revenue, exactly, in units of 2^LowestExp
ShareDrift ==
    Scaled(fcustomer, LowestExp) + Scaled(fvoltus, LowestExp)
        - Scaled(frevenue, LowestExp)

\* r >= 1/2
AtLeastHalf(r) == 2 * r.m * Pow2(r.e + Precision + 2) >= Pow2(Precision + 2)

FlZero == Canon(0, 0)

FlOne == Canon(1, 0)

\* C9 as claimed: the two shares add up to the revenue exactly, and at
\* r = 0 and r = 1 one share is the revenue and the other 0
C9_SharesSumExactly ==
    (pc = "shared" /\ ~frevenue.nan) =>
        /\ FlAdd(fcustomer, fvoltus) = frevenue
        /\ fshare = FlZero => (fcustomer = FlZero /\ fvoltus = frevenue)
        /\ fshare = FlOne => (fcustomer = frevenue /\ fvoltus = FlZero)

\* C9 amended: customer = revenue * r and voltus = revenue - customer, each
\* rounded once; the shares add up to the revenue up to the rounding of the
\* subtraction (at most revenue * 2^-Precision), exactly when r >= 1/2 or
\* r = 0; a NaN revenue has NaN shares; the boundaries r = 0, r = 1 are as claimed
C9_SharesSumWithinRounding ==
    pc = "shared" =>
        IF frevenue.nan THEN fcustomer.nan /\ fvoltus.nan
        ELSE /\ fcustomer = Round(frevenue.m * fshare.m, frevenue.e + fshare.e)
             /\ fvoltus = Round(Scaled(frevenue, LowestExp)
                                    - Scaled(fcustomer, LowestExp), LowestExp)
             /\ Abs(ShareDrift) * Pow2(Precision) <= Scaled(frevenue, LowestExp)
             /\ (AtLeastHalf(fshare) \/ fshare = FlZero) =>
                    (ShareDrift = 0 /\ FlAdd(fcustomer, fvoltus) = frevenue)
             /\ fshare = FlZero => (fcustomer = FlZero /\ fvoltus = frevenue)
             /\ fshare = FlOne => (fcustomer = frevenue /\ fvoltus = FlZero)

\* a ratio below 1/2 for which the shares do not add up to the revenue
C9_Witness ==
    /\ pc = "shared"
    /\ ~frevenue.nan
    /\ frevenue.m > 0
    /\ fshare.m > 0
    /\ ~AtLeastHalf(fshare)
    /\ ShareDrift # 0
    /\ FlAdd(fcustomer, fvoltus) # frevenue

\* C10: with fewer than 10 business days of history (and a sample for every
\* event hour) the baseline is returned, each key holding the mean over the
\* business days present in the lookback
C10_FewerDaysMean ==
    (/\ ComputedBaseline
     /\ Cardinality(DaysWithData) < 10
     /\ \A k \in EventHours(event_start, event_end) : DaysPresent(hour(k)) # {})
    => /\ EventHours(event_start, event_end) \subseteq DOMAIN baseline10
       /\ \A k \in DOMAIN baseline10 :
             DaysPresent(hour(k)) # {} => baseline10[k] = LookbackMean(hour(k))

\* three business days of history, the last with an outlier at 15:00
C10_Witness ==
    /\ ComputedBaseline
    /\ Cardinality(DaysWithData) = 3
    /\ \A k \in EventHours(event_start, event_end) : DaysPresent(hour(k)) # {}
    /\ baseline10[event_start] = R(1000)
    /\ baseline10[event_start + 60] = R(1200)

====
